---- MODULE Spec2Model ----
(***************************************************************************)
(* Model of the raw / legacy-bitmap ingestion core of the image server.    *)
(* Two copies of the server live in the repository and both are modelled:  *)
(*   "index"  - src/server/index.js                                        *)
(*   "part0"  - src/unnamed/part_000 (the copy with guessResolution)       *)
(* Definitions translated from part_000 carry the suffix _p0 when the two  *)
(* copies differ; helpers that are textually identical are modelled once.  *)
(***************************************************************************)
EXTENDS Integers, Sequences, FiniteSets, TLC

VARIABLES
  server,      \* which copy of the server handles the request
  pc,          \* "called" | "done" | "encoded" : position of one request
  ext,         \* path.extname(filePath).toLowerCase()
  rawOptions,  \* [width, height, pixelFormat] as passed to getSharpInstance
  file,        \* [data : bytes on disk, bitmap : what bmp.decode makes of it]
  result,      \* what getSharpInstance hands to sharp
  uploadSize,  \* resolver specification: stats.size of the uploaded file
  resolved,    \* resolver specification: outcome of detection + resolution
  yuv,         \* transform specification: <<y, u, v>>
  rgb,         \* transform specification: the four bytes written
  encoded,     \* /api/process, format bmp: the buffer given to bmp.encode
  steps,       \* loop iterations executed by the invocation so far
  requests,    \* /api/process: one record per request in flight
  statsFile,   \* processedCount stored in stats.json, or Missing
  initialCount \* processedCount before the first request (for the property)

\* the variables of the ingestion core
coreVars == <<server, pc, ext, rawOptions, file, result, uploadSize, resolved,
              yuv, rgb, encoded, steps>>

\* the variables of the process route
processVars == <<requests, statsFile, initialCount>>

vars == <<server, pc, ext, rawOptions, file, result, uploadSize, resolved,
          yuv, rgb, encoded, steps, requests, statsFile, initialCount>>

-----------------------------------------------------------------------------
(* Bounds of the model                                                     *)

MaxLen == 9        \* longest file of the decode specification, in bytes
MaxW == 3          \* largest declared width of the decode specification
MaxH == 2          \* largest declared height of the decode specification
MaxBmpPixels == 2  \* largest decoded bitmap, in pixels
MaxNvDim == 4      \* largest width and height of the NV21 specification

-----------------------------------------------------------------------------
(* JavaScript values                                                       *)

\* the value `undefined`: an absent option, a read past the end of a Buffer
Undef == -1

\* an empty / absent string option (falsy like undefined)
NoHint == ""

\* JS truthiness of a number-or-undefined option (0 and undefined are falsy)
Truthy(n) == n # Undef /\ n # 0

\* buffer[i] : undefined outside 0..length-1
At(buffer, i) == IF i >= 0 /\ i < Len(buffer) THEN buffer[i + 1] ELSE Undef

\* buffer[i] = v : ignored outside 0..length-1; undefined is stored as 0
Put(buffer, i, v) ==
  IF i >= 0 /\ i < Len(buffer)
    THEN [buffer EXCEPT ![i + 1] = IF v = Undef THEN 0 ELSE v]
    ELSE buffer

\* always TRUE; it makes a loop compute the buffer of the previous
\* iteration before it goes on, as the code does, instead of carrying an
\* expression that grows with every iteration
Strict(buffer) == buffer = buffer

\* Buffer.alloc(n) : n zero bytes
BufferAlloc(n) == [i \in 1..n |-> 0]

\* n >> 8 on a 32-bit integer: arithmetic shift, i.e. floor division
Shr8(n) == n \div 256

Min(a, b) == IF a < b THEN a ELSE b
Max(a, b) == IF a > b THEN a ELSE b

\* Math.max(0, Math.min(255, v))
Clamp8(v) == Max(0, Min(255, v))

-----------------------------------------------------------------------------
(* --- PIXEL CONVERSION HELPERS ---                                        *)

\* variant: the red channel driven by U instead of V
yuvR_fromU(y, u, v) ==
  IF y = Undef \/ u = Undef THEN 0
  ELSE (298 * (y - 16) + 409 * (u - 128) + 128) \div 256

\* c, d, e of convertYuvPixelToRgb; an undefined sample makes the sum NaN,
\* and NaN >> 8 is 0
yuvR(y, u, v) ==
  IF y = Undef \/ v = Undef THEN 0
  ELSE Shr8(298 * (y - 16) + 409 * (v - 128) + 128)

\* variant: the chroma samples used without their offset of 128
yuvG_NoChromaOffset(y, u, v) ==
  IF y = Undef \/ u = Undef \/ v = Undef THEN 0
  ELSE Shr8(298 * (y - 16) - 100 * u - 208 * v + 128)

yuvG(y, u, v) ==
  IF y = Undef \/ u = Undef \/ v = Undef THEN 0
  ELSE Shr8(298 * (y - 16) - 100 * (u - 128) - 208 * (v - 128) + 128)

yuvB(y, u, v) ==
  IF y = Undef \/ u = Undef THEN 0
  ELSE Shr8(298 * (y - 16) + 516 * (u - 128) + 128)

\* the four bytes convertYuvPixelToRgb stores at offset .. offset+3
YuvPixel(y, u, v) ==
  << Clamp8(yuvR(y, u, v)), Clamp8(yuvG(y, u, v)), Clamp8(yuvB(y, u, v)), 255 >>

convertYuvPixelToRgb(y, u, v, outBuffer, offset) ==
  LET px == YuvPixel(y, u, v) IN
  Put(Put(Put(Put(outBuffer, offset, px[1]), offset + 1, px[2]),
          offset + 2, px[3]), offset + 3, px[4])

\* variant: the loop does not stop where the input ends
PackedContinueNoBreak(buffer, numPixels, i, ptr) == 2 * i < numPixels

\* variant: the loop runs as long as the input has a full group
PackedContinueBreakOnly(buffer, numPixels, i, ptr) ==
  ~(ptr + 3 >= Len(buffer))

\* loop guard of uyvyToRgba / yuy2ToRgba: i < numPixels / 2 and no early break
PackedContinue(buffer, numPixels, i, ptr) ==
  /\ 2 * i < numPixels
  /\ ~(ptr + 3 >= Len(buffer))

\* variant: the group read in the order Y0, U, Y1, V
RECURSIVE uyvyLoopLumaFirst(_, _, _, _, _, _)
uyvyLoopLumaFirst(buffer, numPixels, i, ptr, outPtr, rgba) ==
  IF Strict(rgba) /\ ~PackedContinue(buffer, numPixels, i, ptr) THEN rgba
  ELSE LET y0 == At(buffer, ptr)
           u  == At(buffer, ptr + 1)
           y1 == At(buffer, ptr + 2)
           v  == At(buffer, ptr + 3)
       IN uyvyLoopLumaFirst(buffer, numPixels, i + 1, ptr + 4, outPtr + 8,
            convertYuvPixelToRgb(y1, u, v,
              convertYuvPixelToRgb(y0, u, v, rgba, outPtr), outPtr + 4))

RECURSIVE uyvyLoop(_, _, _, _, _, _)
uyvyLoop(buffer, numPixels, i, ptr, outPtr, rgba) ==
  IF Strict(rgba) /\ ~PackedContinue(buffer, numPixels, i, ptr) THEN rgba
  ELSE LET u  == At(buffer, ptr)
           y0 == At(buffer, ptr + 1)
           v  == At(buffer, ptr + 2)
           y1 == At(buffer, ptr + 3)
       IN uyvyLoop(buffer, numPixels, i + 1, ptr + 4, outPtr + 8,
            convertYuvPixelToRgb(y1, u, v,
              convertYuvPixelToRgb(y0, u, v, rgba, outPtr), outPtr + 4))

\* variant: the output allocated with three bytes per pixel
uyvyToRgbaRgbAlloc(buffer, width, height) ==
  uyvyLoop(buffer, width * height, 0, 0, 0, BufferAlloc(width * height * 3))

uyvyToRgba(buffer, width, height) ==
  uyvyLoop(buffer, width * height, 0, 0, 0, BufferAlloc(width * height * 4))

RECURSIVE yuy2Loop(_, _, _, _, _, _)
yuy2Loop(buffer, numPixels, i, ptr, outPtr, rgba) ==
  IF Strict(rgba) /\ ~PackedContinue(buffer, numPixels, i, ptr) THEN rgba
  ELSE LET y0 == At(buffer, ptr)
           u  == At(buffer, ptr + 1)
           y1 == At(buffer, ptr + 2)
           v  == At(buffer, ptr + 3)
       IN yuy2Loop(buffer, numPixels, i + 1, ptr + 4, outPtr + 8,
            convertYuvPixelToRgb(y1, u, v,
              convertYuvPixelToRgb(y0, u, v, rgba, outPtr), outPtr + 4))

yuy2ToRgba(buffer, width, height) ==
  yuy2Loop(buffer, width * height, 0, 0, 0, BufferAlloc(width * height * 4))

\* variant: the size check rejects a short buffer instead of warning
nv21SizeCheckStrict(buffer, width, height) ==
  IF 2 * Len(buffer) < 3 * width * height THEN "throw" ELSE "ok"

\* the size check at the head of nv21ToRgba: console.warn only
nv21SizeCheck(buffer, width, height) ==
  IF 2 * Len(buffer) < 3 * width * height THEN "warn" ELSE "ok"

\* variant: the bounds test looks at the first byte of the pair only
nv21PixelLooseCheck(buffer, width, height, yIndex, rgba) ==
  LET y  == yIndex \div width
      x  == yIndex % width
      yVal == At(buffer, yIndex)
      uvIndex == width * height + (y \div 2) * width + (x \div 2) * 2
      inside == uvIndex < Len(buffer)
      vVal == IF inside THEN At(buffer, uvIndex) ELSE 128
      uVal == IF inside THEN At(buffer, uvIndex + 1) ELSE 128
  IN convertYuvPixelToRgb(yVal, uVal, vVal, rgba, yIndex * 4)

\* variant: the chroma pair read in NV12 order, U before V
nv21PixelNv12(buffer, width, height, yIndex, rgba) ==
  LET y  == yIndex \div width
      x  == yIndex % width
      yVal == At(buffer, yIndex)
      uvIndex == width * height + (y \div 2) * width + (x \div 2) * 2
      inside == uvIndex + 1 < Len(buffer)
      uVal == IF inside THEN At(buffer, uvIndex) ELSE 128
      vVal == IF inside THEN At(buffer, uvIndex + 1) ELSE 128
  IN convertYuvPixelToRgb(yVal, uVal, vVal, rgba, yIndex * 4)

\* one iteration of the x/y loops of nv21ToRgba (src/server/index.js)
nv21Pixel(buffer, width, height, yIndex, rgba) ==
  LET y  == yIndex \div width
      x  == yIndex % width
      yVal == At(buffer, yIndex)
      uvIndex == width * height + (y \div 2) * width + (x \div 2) * 2
      inside == uvIndex + 1 < Len(buffer)
      vVal == IF inside THEN At(buffer, uvIndex) ELSE 128
      uVal == IF inside THEN At(buffer, uvIndex + 1) ELSE 128
  IN convertYuvPixelToRgb(yVal, uVal, vVal, rgba, yIndex * 4)

RECURSIVE nv21Loop(_, _, _, _, _)
nv21Loop(buffer, width, height, yIndex, rgba) ==
  IF Strict(rgba) /\ yIndex >= width * height THEN rgba
  ELSE nv21Loop(buffer, width, height, yIndex + 1,
                nv21Pixel(buffer, width, height, yIndex, rgba))

nv21ToRgba(buffer, width, height) ==
  nv21Loop(buffer, width, height, 0, BufferAlloc(width * height * 4))

\* the same iteration in src/unnamed/part_000: yVal starts at 0 and is read
\* only when yIndex < ySize
nv21Pixel_p0(buffer, width, height, yIndex, rgba) ==
  LET y  == yIndex \div width
      x  == yIndex % width
      ySize == width * height
      yVal == IF yIndex < ySize THEN At(buffer, yIndex) ELSE 0
      uvIndex == ySize + (y \div 2) * width + (x \div 2) * 2
      inside == uvIndex + 1 < Len(buffer)
      vVal == IF inside THEN At(buffer, uvIndex) ELSE 128
      uVal == IF inside THEN At(buffer, uvIndex + 1) ELSE 128
  IN convertYuvPixelToRgb(yVal, uVal, vVal, rgba, yIndex * 4)

RECURSIVE nv21Loop_p0(_, _, _, _, _)
nv21Loop_p0(buffer, width, height, yIndex, rgba) ==
  IF Strict(rgba) /\ yIndex >= width * height THEN rgba
  ELSE nv21Loop_p0(buffer, width, height, yIndex + 1,
                   nv21Pixel_p0(buffer, width, height, yIndex, rgba))

nv21ToRgba_p0(buffer, width, height) ==
  nv21Loop_p0(buffer, width, height, 0, BufferAlloc(width * height * 4))

\* for (i = 0; i < limit; i += step) { swap bytes i and i+2 }
RECURSIVE swapLoop(_, _, _, _)
swapLoop(buf, i, limit, step) ==
  IF Strict(buf) /\ ~(i < limit) THEN buf
  ELSE LET b == At(buf, i)
           r == At(buf, i + 2)
       IN swapLoop(Put(Put(buf, i, r), i + 2, b), i + step, limit, step)

\* case 'bgra' (both copies): Buffer.from(buffer), loop to rgbaBuffer.length
bgraSwap(buffer) == swapLoop(buffer, 0, Len(buffer), 4)

\* case 'bgr' of src/server/index.js: loop to bgrBuf.length
bgrSwap(buffer) == swapLoop(buffer, 0, Len(buffer), 3)

\* case 'bgr' of part_000: limit = Math.floor(length / 3) * 3
bgrSwap_p0(buffer) == swapLoop(buffer, 0, (Len(buffer) \div 3) * 3, 3)

-----------------------------------------------------------------------------
(* Format detection and resolution                                         *)

STANDARD_FORMATS ==
  {".jpg", ".jpeg", ".png", ".webp", ".gif", ".avif", ".tiff", ".tif", ".svg"}

\* implicitRaw of src/server/index.js
ImplicitRawExts ==
  {".uyvy", ".yuv", ".nv21", ".rgb", ".rgba", ".bgra", ".bgr", ".bin", ".raw"}

\* implicitRaw of part_000
ImplicitRawExts_p0 ==
  {".uyvy", ".yuv", ".nv21", ".rgb", ".bgr", ".raw", ".bin"}

\* String.prototype.toLowerCase on the hint values of the model
toLowerCase(s) ==
  CASE s = "UYVY" -> "uyvy"
    [] s = "NV21" -> "nv21"
    [] s = "RGB"  -> "rgb"
    [] s = "BGRA" -> "bgra"
    [] OTHER -> s

\* [null, null] of guessResolution, and a missing KNOWN_RESOLUTIONS entry
NoDims == <<Undef, Undef>>

\* KNOWN_RESOLUTIONS[size] of src/server/index.js
KNOWN_RESOLUTIONS(size) ==
  CASE size = 5898240 -> <<1920, 1536>>
    [] size = 4147200 -> <<1920, 1080>>
    [] size = 1843200 -> <<1280, 720>>
    [] size = 614400  -> <<640, 480>>
    [] OTHER -> NoDims

\* variant: a table in which two candidates have the same pixel count
resolutionsWithSquare ==
  << <<1920, 1080>>, <<1920, 1536>>, <<1280, 720>>, <<640, 480>>,
     <<3840, 2160>>, <<2560, 1440>>, <<800, 600>>, <<960, 960>> >>

\* the candidate table of guessResolution, in its order
resolutions ==
  << <<1920, 1080>>, <<1920, 1536>>, <<1280, 720>>, <<640, 480>>,
     <<3840, 2160>>, <<2560, 1440>>, <<800, 600>>, <<1024, 768>> >>

\* bpp of guessResolution, doubled so that 1.5 stays an integer
bpp2(pixelFormat) ==
  IF pixelFormat = "rgba" \/ pixelFormat = "bgra" THEN 8
  ELSE IF pixelFormat = "rgb" \/ pixelFormat = "bgr" THEN 6
  ELSE IF pixelFormat = "nv21" THEN 3
  ELSE 4

\* Math.floor(fileSize / bpp)
totalPixels(fileSize, pixelFormat) == (2 * fileSize) \div bpp2(pixelFormat)

Abs(n) == IF n < 0 THEN -n ELSE n

\* first pass: w * h === totalPixels
exactMatch(k, fileSize, pixelFormat) ==
  resolutions[k][1] * resolutions[k][2] = totalPixels(fileSize, pixelFormat)

\* variant: the tolerance test admits a difference of exactly 4096
fuzzyMatchInclusive(k, fileSize, pixelFormat) ==
  LET w == resolutions[k][1]
      h == resolutions[k][2]
      d == 2 * fileSize - w * h * (IF pixelFormat = "rgba" \/ pixelFormat = "bgra" THEN 8
                                   ELSE IF pixelFormat = "rgb" \/ pixelFormat = "bgr" THEN 6
                                   ELSE IF pixelFormat = "nv21" THEN 3 ELSE 4)
  IN d <= 2 * 4096 /\ -d <= 2 * 4096

\* second pass: Math.abs(fileSize - w * h * bpp) < 4096  (both sides doubled)
fuzzyMatch(k, fileSize, pixelFormat) ==
  Abs(2 * fileSize - resolutions[k][1] * resolutions[k][2] * bpp2(pixelFormat))
    < 2 * 4096

\* the first entry of the table, in table order, that satisfies a pass
RECURSIVE firstExact(_, _, _)
firstExact(k, fileSize, pixelFormat) ==
  IF k > Len(resolutions) THEN 0
  ELSE IF exactMatch(k, fileSize, pixelFormat) THEN k
  ELSE firstExact(k + 1, fileSize, pixelFormat)

RECURSIVE firstFuzzy(_, _, _)
firstFuzzy(k, fileSize, pixelFormat) ==
  IF k > Len(resolutions) THEN 0
  ELSE IF fuzzyMatch(k, fileSize, pixelFormat) THEN k
  ELSE firstFuzzy(k + 1, fileSize, pixelFormat)

guessResolution(fileSize, pixelFormat) ==
  LET e == firstExact(1, fileSize, pixelFormat)
      f == firstFuzzy(1, fileSize, pixelFormat)
  IN IF e # 0 THEN resolutions[e]
     ELSE IF f # 0 THEN resolutions[f]
     ELSE NoDims

\* pixelFormat of src/server/index.js: rawOptions.pixelFormat || 'uyvy'
choosePixelFormat(e, opts) ==
  IF opts.pixelFormat # NoHint THEN opts.pixelFormat ELSE "uyvy"

\* pixelFormat of part_000: the hint, else the extension's format
choosePixelFormat_p0(e, opts) ==
  IF opts.pixelFormat # NoHint THEN opts.pixelFormat
  ELSE IF e = ".nv21" THEN "nv21"
  ELSE IF e = ".rgb" THEN "rgb"
  ELSE IF e = ".bgr" THEN "bgr"
  ELSE IF e = ".bgra" THEN "bgra"
  ELSE IF e = ".rgba" THEN "rgba"
  ELSE "uyvy"

\* !isStandard && (explicitRaw || implicitRaw)  (src/server/index.js)
treatAsRaw(e, opts) ==
  LET isStandard == e \in STANDARD_FORMATS
      explicitRaw == /\ ~isStandard
                     /\ Truthy(opts.width) /\ Truthy(opts.height)
                     /\ opts.pixelFormat # NoHint
      implicitRaw == e \in ImplicitRawExts
  IN ~isStandard /\ (explicitRaw \/ implicitRaw)

\* explicitRaw || implicitRaw  (part_000)
treatAsRaw_p0(e, opts) ==
  LET explicitRaw == Truthy(opts.width) /\ Truthy(opts.height)
      implicitRaw == e \in ImplicitRawExts_p0
  IN explicitRaw \/ implicitRaw

\* width / height of src/server/index.js: declared, else the size table
resolveDims(opts, size, pixelFormat) ==
  IF Truthy(opts.width) /\ Truthy(opts.height)
    THEN <<opts.width, opts.height>>
    ELSE KNOWN_RESOLUTIONS(size)

\* width / height of part_000: declared, else guessed when the guess succeeds
resolveDims_p0(opts, size, pixelFormat) ==
  IF ~Truthy(opts.width) \/ ~Truthy(opts.height)
    THEN LET g == guessResolution(size, pixelFormat)
         IN IF Truthy(g[1]) /\ Truthy(g[2]) THEN g
            ELSE <<opts.width, opts.height>>
    ELSE <<opts.width, opts.height>>

\* the branch getSharpInstance takes, with the format and the dimensions it
\* decodes with (src/server/index.js)
Route(e, opts, size) ==
  LET pixelFormat == choosePixelFormat(e, opts)
      dims == resolveDims(opts, size, pixelFormat)
  IN IF treatAsRaw(e, opts) /\ Truthy(dims[1]) /\ Truthy(dims[2])
       THEN [path |-> "raw", pixelFormat |-> pixelFormat,
             width |-> dims[1], height |-> dims[2]]
     ELSE IF e = ".bmp"
       THEN [path |-> "bmp", pixelFormat |-> NoHint,
             width |-> Undef, height |-> Undef]
     ELSE [path |-> "pass", pixelFormat |-> NoHint,
           width |-> Undef, height |-> Undef]

\* the same for part_000
Route_p0(e, opts, size) ==
  LET pixelFormat == choosePixelFormat_p0(e, opts)
      dims == resolveDims_p0(opts, size, pixelFormat)
  IN IF treatAsRaw_p0(e, opts) /\ Truthy(dims[1]) /\ Truthy(dims[2])
       THEN [path |-> "raw", pixelFormat |-> pixelFormat,
             width |-> dims[1], height |-> dims[2]]
     ELSE IF e = ".bmp"
       THEN [path |-> "bmp", pixelFormat |-> NoHint,
             width |-> Undef, height |-> Undef]
     ELSE [path |-> "pass", pixelFormat |-> NoHint,
           width |-> Undef, height |-> Undef]

-----------------------------------------------------------------------------
(* getSharpInstance                                                        *)

\* a statement that throws ends the call with the exception
Thrown ==
  [kind |-> "error", buffer |-> <<>>, width |-> Undef, height |-> Undef,
   channels |-> 0, decoder |-> "none", fresh |-> TRUE, warned |-> FALSE]

\* sharp(filePath, ...) : the file goes to the standard decoder untouched
Standard ==
  [kind |-> "pass", buffer |-> <<>>, width |-> Undef, height |-> Undef,
   channels |-> 0, decoder |-> "sharp", fresh |-> TRUE, warned |-> FALSE]

\* sharp(buf, { raw: { width, height, channels } })
RawInput(buf, width, height, channels, decoder, fresh, warned) ==
  [kind |-> "raw", buffer |-> buf, width |-> width, height |-> height,
   channels |-> channels, decoder |-> decoder, fresh |-> fresh,
   warned |-> warned]

\* nv21ToRgba with its size check (src/server/index.js)
nv21Case(buffer, width, height) ==
  LET chk == nv21SizeCheck(buffer, width, height)
  IN IF chk = "throw" THEN Thrown
     ELSE RawInput(nv21ToRgba(buffer, width, height), width, height, 4,
                   "nv21ToRgba", TRUE, chk = "warn")

\* nv21ToRgba with its size check (part_000)
nv21Case_p0(buffer, width, height) ==
  LET chk == nv21SizeCheck(buffer, width, height)
  IN IF chk = "throw" THEN Thrown
     ELSE RawInput(nv21ToRgba_p0(buffer, width, height), width, height, 4,
                   "nv21ToRgba", TRUE, chk = "warn")

\* variant: the switch rejects a format it has no case for
rawDecodeRejectUnknown(pixelFormat, buffer, width, height) ==
  LET pf == toLowerCase(pixelFormat)
  IN CASE pf = "uyvy" ->
            RawInput(uyvyToRgba(buffer, width, height), width, height, 4,
                     "uyvyToRgba", TRUE, FALSE)
       [] pf = "yuy2" ->
            RawInput(yuy2ToRgba(buffer, width, height), width, height, 4,
                     "yuy2ToRgba", TRUE, FALSE)
       [] pf = "nv21" -> nv21Case(buffer, width, height)
       [] pf = "rgba" ->
            RawInput(buffer, width, height, 4, "rgba", FALSE, FALSE)
       [] pf = "bgra" ->
            RawInput(bgraSwap(buffer), width, height, 4, "bgra", TRUE, FALSE)
       [] pf = "rgb" ->
            RawInput(buffer, width, height, 3, "rgb", FALSE, FALSE)
       [] pf = "bgr" ->
            RawInput(bgrSwap(buffer), width, height, 3, "bgr", TRUE, FALSE)
       [] OTHER -> Thrown

\* switch (pixelFormat.toLowerCase()) of src/server/index.js
rawDecode(pixelFormat, buffer, width, height) ==
  LET pf == toLowerCase(pixelFormat)
  IN CASE pf = "uyvy" ->
            RawInput(uyvyToRgba(buffer, width, height), width, height, 4,
                     "uyvyToRgba", TRUE, FALSE)
       [] pf = "yuy2" ->
            RawInput(yuy2ToRgba(buffer, width, height), width, height, 4,
                     "yuy2ToRgba", TRUE, FALSE)
       [] pf = "nv21" -> nv21Case(buffer, width, height)
       [] pf = "rgba" ->
            RawInput(buffer, width, height, 4, "rgba", FALSE, FALSE)
       [] pf = "bgra" ->
            RawInput(bgraSwap(buffer), width, height, 4, "bgra", TRUE, FALSE)
       [] pf = "rgb" ->
            RawInput(buffer, width, height, 3, "rgb", FALSE, FALSE)
       [] pf = "bgr" ->
            RawInput(bgrSwap(buffer), width, height, 3, "bgr", TRUE, FALSE)
       [] OTHER ->
            RawInput(uyvyToRgba(buffer, width, height), width, height, 4,
                     "uyvyToRgba", TRUE, FALSE)

\* switch (pixelFormat.toLowerCase()) of part_000
rawDecode_p0(pixelFormat, buffer, width, height) ==
  LET pf == toLowerCase(pixelFormat)
  IN CASE pf = "uyvy" \/ pf = "yuy2" ->
            RawInput(uyvyToRgba(buffer, width, height), width, height, 4,
                     "uyvyToRgba", TRUE, FALSE)
       [] pf = "nv21" -> nv21Case_p0(buffer, width, height)
       [] pf = "rgba" ->
            RawInput(buffer, width, height, 4, "rgba", FALSE, FALSE)
       [] pf = "bgra" ->
            RawInput(bgraSwap(buffer), width, height, 4, "bgra", TRUE, FALSE)
       [] pf = "rgb" ->
            RawInput(buffer, width, height, 3, "rgb", FALSE, FALSE)
       [] pf = "bgr" ->
            RawInput(bgrSwap_p0(buffer), width, height, 3, "bgr", TRUE, FALSE)
       [] OTHER ->
            RawInput(uyvyToRgba(buffer, width, height), width, height, 4,
                     "uyvyToRgba", TRUE, TRUE)

\* for (i = 0; i < len; i += 4) if (rawData[i] > maxAlpha) maxAlpha = rawData[i]
RECURSIVE maxAlphaLoop(_, _, _)
maxAlphaLoop(rawData, i, maxAlpha) ==
  IF ~(i < Len(rawData)) THEN maxAlpha
  ELSE maxAlphaLoop(rawData, i + 4,
         IF At(rawData, i) > maxAlpha THEN At(rawData, i) ELSE maxAlpha)

\* variant: only the first pixel's alpha decides
forceOpaqueFirstPixel(rawData) == At(rawData, 0) = 0

\* const forceOpaque = (maxAlpha === 0)
forceOpaque(rawData) == maxAlphaLoop(rawData, 0, 0) = 0

\* Map ABGR -> RGBA
RECURSIVE abgrLoop(_, _, _, _)
abgrLoop(rawData, i, opaque, rgba) ==
  IF Strict(rgba) /\ ~(i < Len(rawData)) THEN rgba
  ELSE LET a == At(rawData, i)
           b == At(rawData, i + 1)
           g == At(rawData, i + 2)
           r == At(rawData, i + 3)
       IN abgrLoop(rawData, i + 4, opaque,
            Put(Put(Put(Put(rgba, i, r), i + 1, g), i + 2, b),
                i + 3, IF opaque THEN 255 ELSE a))

bmpToRgba(rawData) ==
  abgrLoop(rawData, 0, forceOpaque(rawData), BufferAlloc(Len(rawData)))

\* the .bmp branch: bmp.decode throws on a file it cannot parse, the catch
\* logs the error and the call goes on to the standard decoder
bmpBranch(bitmap) ==
  IF ~bitmap.ok THEN Standard
  ELSE [kind |-> "bmp", buffer |-> bmpToRgba(bitmap.data),
        width |-> bitmap.width, height |-> bitmap.height, channels |-> 4,
        decoder |-> "bmp-js", fresh |-> TRUE, warned |-> FALSE]

\* src/server/index.js
getSharpInstance(e, opts, f) ==
  LET r == Route(e, opts, Len(f.data))
  IN IF r.path = "raw"
       THEN rawDecode(r.pixelFormat, f.data, r.width, r.height)
     ELSE IF r.path = "bmp" THEN bmpBranch(f.bitmap)
     ELSE Standard

\* part_000
getSharpInstance_p0(e, opts, f) ==
  LET r == Route_p0(e, opts, Len(f.data))
  IN IF r.path = "raw"
       THEN rawDecode_p0(r.pixelFormat, f.data, r.width, r.height)
     ELSE IF r.path = "bmp" THEN bmpBranch(f.bitmap)
     ELSE Standard

-----------------------------------------------------------------------------
(* Loop iterations of one invocation                                       *)

\* bodies executed by for (let i = 0; i < numPixels / 2; i++) { if (...) break; ... }
RECURSIVE packedIterations(_, _, _, _)
packedIterations(buffer, numPixels, i, ptr) ==
  IF ~PackedContinue(buffer, numPixels, i, ptr) THEN i
  ELSE packedIterations(buffer, numPixels, i + 1, ptr + 4)

\* the output offsets the packed decoders store to: iteration i calls
\* convertYuvPixelToRgb at outPtr = 8i and at outPtr = 8i + 4, and each call
\* stores to offset .. offset + 3
packedWriteOffsets(buffer, numPixels) ==
  UNION { (8 * i)..(8 * i + 7) :
            i \in 0..(packedIterations(buffer, numPixels, 0, 0) - 1) }

\* bodies executed by for (i = from; i < limit; i += step)
RECURSIVE strideIterations(_, _, _, _)
strideIterations(i, limit, step, n) ==
  IF ~(i < limit) THEN n
  ELSE strideIterations(i + step, limit, step, n + 1)

\* for (y < height) for (x < width) of nv21ToRgba
nv21Iterations(width, height) == height * width

\* the two passes of guessResolution over its table
guessIterations(fileSize, pixelFormat) ==
  LET e == firstExact(1, fileSize, pixelFormat)
      f == firstFuzzy(1, fileSize, pixelFormat)
  IN IF e # 0 THEN e
     ELSE Len(resolutions) + (IF f # 0 THEN f ELSE Len(resolutions))

\* the loops of the decoder switch (src/server/index.js)
rawIterations(pixelFormat, buffer, width, height) ==
  LET pf == toLowerCase(pixelFormat)
  IN CASE pf = "nv21" -> nv21Iterations(width, height)
       [] pf = "rgba" \/ pf = "rgb" -> 0
       [] pf = "bgra" -> strideIterations(0, Len(buffer), 4, 0)
       [] pf = "bgr" -> strideIterations(0, Len(buffer), 3, 0)
       [] OTHER -> packedIterations(buffer, width * height, 0, 0)

\* the loops of the decoder switch (part_000)
rawIterations_p0(pixelFormat, buffer, width, height) ==
  LET pf == toLowerCase(pixelFormat)
  IN CASE pf = "nv21" -> nv21Iterations(width, height)
       [] pf = "rgba" \/ pf = "rgb" -> 0
       [] pf = "bgra" -> strideIterations(0, Len(buffer), 4, 0)
       [] pf = "bgr" -> strideIterations(0, (Len(buffer) \div 3) * 3, 3, 0)
       [] OTHER -> packedIterations(buffer, width * height, 0, 0)

\* the maxAlpha loop and the ABGR -> RGBA loop of the .bmp branch
bmpIterations(bitmap) ==
  IF ~bitmap.ok THEN 0
  ELSE strideIterations(0, Len(bitmap.data), 4, 0)
         + strideIterations(0, Len(bitmap.data), 4, 0)

\* guessResolution is called when width or height is missing (part_000)
guessCalled_p0(e, opts) ==
  treatAsRaw_p0(e, opts) /\ (~Truthy(opts.width) \/ ~Truthy(opts.height))

\* src/server/index.js
getSharpInstanceIterations(e, opts, f) ==
  LET r == Route(e, opts, Len(f.data))
  IN IF r.path = "raw"
       THEN rawIterations(r.pixelFormat, f.data, r.width, r.height)
     ELSE IF r.path = "bmp" THEN bmpIterations(f.bitmap)
     ELSE 0

\* part_000
getSharpInstanceIterations_p0(e, opts, f) ==
  LET r == Route_p0(e, opts, Len(f.data))
  IN (IF guessCalled_p0(e, opts)
        THEN guessIterations(Len(f.data), choosePixelFormat_p0(e, opts))
        ELSE 0)
     + (IF r.path = "raw"
          THEN rawIterations_p0(r.pixelFormat, f.data, r.width, r.height)
        ELSE IF r.path = "bmp" THEN bmpIterations(f.bitmap)
        ELSE 0)

-----------------------------------------------------------------------------
(* /api/process with format 'bmp': canonical RGBA -> (A,B,G,R) for bmp-js   *)

\* variant: the colour channels are written in the order they are read
encodeLoopNoSwap(buffer, i, abgrBuffer) ==
  LET r == At(buffer, i)
      g == At(buffer, i + 1)
      b == At(buffer, i + 2)
      a == At(buffer, i + 3)
  IN Put(Put(Put(Put(abgrBuffer, i, a), i + 1, r), i + 2, g), i + 3, b)

\* body of the loop of src/server/index.js: alpha is copied
encodeLoop(buffer, i, abgrBuffer) ==
  LET r == At(buffer, i)
      g == At(buffer, i + 1)
      b == At(buffer, i + 2)
      a == At(buffer, i + 3)
  IN Put(Put(Put(Put(abgrBuffer, i, a), i + 1, b), i + 2, g), i + 3, r)

\* variant: the forcing loop lets the canonical alpha through
encodeLoopKeepAlpha_p2(buffer, i, abgrBuffer) ==
  Put(Put(Put(Put(abgrBuffer, i, At(buffer, i + 3)), i + 1, At(buffer, i + 2)),
          i + 2, At(buffer, i + 1)), i + 3, At(buffer, i))

\* body of the loop of part_002: alpha is forced to 255
encodeLoop_p2(buffer, i, abgrBuffer) ==
  Put(Put(Put(Put(abgrBuffer, i, 255), i + 1, At(buffer, i + 2)),
          i + 2, At(buffer, i + 1)), i + 3, At(buffer, i))

\* for (let i = 0; i < buffer.length; i += 4) { ... }
RECURSIVE rgbaToAbgr(_, _, _)
rgbaToAbgr(buffer, i, abgrBuffer) ==
  IF Strict(abgrBuffer) /\ ~(i < Len(buffer)) THEN abgrBuffer
  ELSE rgbaToAbgr(buffer, i + 4, encodeLoop(buffer, i, abgrBuffer))

RECURSIVE rgbaToAbgr_p2(_, _, _)
rgbaToAbgr_p2(buffer, i, abgrBuffer) ==
  IF Strict(abgrBuffer) /\ ~(i < Len(buffer)) THEN abgrBuffer
  ELSE rgbaToAbgr_p2(buffer, i + 4, encodeLoop_p2(buffer, i, abgrBuffer))

\* the pipeline applies no operation here, so the buffer it hands to the
\* encoder is the canonical buffer the decode produced
CanEncode(r) ==
  /\ r.kind \in {"raw", "bmp"}
  /\ r.channels = 4
  /\ Len(r.buffer) = r.width * r.height * 4

-----------------------------------------------------------------------------
(* Inputs                                                                  *)

Servers == {"index", "part0"}

RawExts ==
  {".uyvy", ".yuv", ".raw", ".bin", ".nv21", ".rgb", ".bgr", ".rgba", ".bgra"}

\* every extension the detector distinguishes, and one it does not know
Exts == RawExts \cup STANDARD_FORMATS \cup {".bmp", ".dat"}

\* the formats of the decoder set, as the UI sends them
KnownHints == {"uyvy", "yuy2", "nv21", "rgb", "bgr", "rgba", "bgra"}

\* no hint, the known ones, upper-case spellings and an unsupported one
Hints == {NoHint} \cup KnownHints \cup {"NV21", "RGB", "h264"}

\* bytes of an uploaded file: distinct values at neighbouring offsets
Pattern(len, seed) == [i \in 1..len |-> (seed + 37 * i) % 256]

Seeds == {3, 150}

\* a uniform UYVY frame of nominal white: U = V = 128, every Y = 235
WhiteUyvy(len) == [i \in 1..len |-> IF i % 2 = 1 THEN 128 ELSE 235]

FileData ==
  { Pattern(len, seed) : len \in 0..MaxLen, seed \in Seeds } \cup
  { WhiteUyvy(len) : len \in 0..MaxLen }

\* what bmp.decode returns for a file: (A,B,G,R) per pixel, or a failure
NoBitmap == [ok |-> FALSE, width |-> 0, height |-> 0, data |-> <<>>]

Alphas == {0, 9, 255}

BitmapOf(n, alpha) ==
  [ok |-> TRUE, width |-> n, height |-> 1,
   data |-> [i \in 1..(4 * n) |->
               IF (i - 1) % 4 = 0 THEN alpha[(i - 1) \div 4 + 1]
               ELSE 10 * ((i - 1) \div 4 + 1) + ((i - 1) % 4)]]

Bitmaps ==
  {NoBitmap} \cup
  UNION { { BitmapOf(n, alpha) : alpha \in [1..n -> Alphas] } :
          n \in 1..MaxBmpPixels }

\* files on disk; only a .bmp upload is given to bmp.decode
Files(e) ==
  { [data |-> d, bitmap |-> b] :
      d \in FileData, b \in IF e = ".bmp" THEN Bitmaps ELSE {NoBitmap} }

Widths == {Undef, 0} \cup 1..MaxW
Heights == {Undef} \cup 1..MaxH

Options(ws, hs) ==
  { [width |-> w, height |-> h, pixelFormat |-> p] :
      w \in ws, h \in hs, p \in Hints }

NoResult ==
  [kind |-> "none", buffer |-> <<>>, width |-> Undef, height |-> Undef,
   channels |-> 0, decoder |-> "none", fresh |-> TRUE, warned |-> FALSE]

NoRoute ==
  [path |-> "none", pixelFormat |-> NoHint, width |-> Undef, height |-> Undef]

NoFile == [data |-> <<>>, bitmap |-> NoBitmap]

NoEncoded == [policy |-> "none", data |-> <<>>]

-----------------------------------------------------------------------------
(* Specification of one invocation of the core on a small file             *)

Init ==
  /\ pc = "called"
  /\ server \in Servers
  /\ ext \in Exts
  /\ rawOptions \in Options(Widths, Heights)
  /\ file \in Files(ext)
  /\ result = NoResult
  /\ uploadSize = Len(file.data)
  /\ resolved = NoRoute
  /\ yuv = <<0, 0, 0>>
  /\ rgb = <<>>
  /\ encoded = NoEncoded
  /\ steps = 0
  /\ requests = <<>>
  /\ statsFile = 0
  /\ initialCount = 0

GetSharpInstance ==
  /\ pc = "called"
  /\ server = "index"
  /\ result' = getSharpInstance(ext, rawOptions, file)
  /\ steps' = getSharpInstanceIterations(ext, rawOptions, file)
  /\ pc' = "done"
  /\ UNCHANGED <<server, ext, rawOptions, file, uploadSize, resolved, yuv, rgb,
                 encoded, processVars>>

GetSharpInstance_p0 ==
  /\ pc = "called"
  /\ server = "part0"
  /\ result' = getSharpInstance_p0(ext, rawOptions, file)
  /\ steps' = getSharpInstanceIterations_p0(ext, rawOptions, file)
  /\ pc' = "done"
  /\ UNCHANGED <<server, ext, rawOptions, file, uploadSize, resolved, yuv, rgb,
                 encoded, processVars>>

\* output as bmp, alpha copied (src/server/index.js)
EncodeBmp ==
  /\ pc = "done"
  /\ CanEncode(result)
  /\ encoded' = [policy |-> "copy",
                 data |-> rgbaToAbgr(result.buffer, 0,
                                     BufferAlloc(Len(result.buffer)))]
  /\ steps' = steps + strideIterations(0, Len(result.buffer), 4, 0)
  /\ pc' = "encoded"
  /\ UNCHANGED <<server, ext, rawOptions, file, result, uploadSize, resolved,
                 yuv, rgb,
                 processVars>>

\* output as bmp, alpha forced (part_002)
EncodeBmp_p2 ==
  /\ pc = "done"
  /\ CanEncode(result)
  /\ encoded' = [policy |-> "force",
                 data |-> rgbaToAbgr_p2(result.buffer, 0,
                                        BufferAlloc(Len(result.buffer)))]
  /\ steps' = steps + strideIterations(0, Len(result.buffer), 4, 0)
  /\ pc' = "encoded"
  /\ UNCHANGED <<server, ext, rawOptions, file, result, uploadSize, resolved,
                 yuv, rgb,
                 processVars>>

Next ==
  \/ GetSharpInstance
  \/ GetSharpInstance_p0
  \/ EncodeBmp
  \/ EncodeBmp_p2

Spec == Init /\ [][Next]_vars

-----------------------------------------------------------------------------
(* Specification of one invocation on an NV21 frame of up to                *)
(* MaxNvDim x MaxNvDim pixels: full, short by a byte, luma plane only       *)

NvSizes(w, h) ==
  { n \in {0, w * h - 1, w * h, w * h + 1,
           (3 * w * h) \div 2 - 1, (3 * w * h) \div 2,
           (3 * w * h) \div 2 + 1} : n >= 0 }

InitNv21 ==
  /\ pc = "called"
  /\ server \in Servers
  /\ ext = ".nv21"
  /\ \E w \in 1..MaxNvDim, h \in 1..MaxNvDim :
       /\ rawOptions = [width |-> w, height |-> h, pixelFormat |-> "nv21"]
       /\ \E n \in NvSizes(w, h), seed \in Seeds :
            file = [data |-> Pattern(n, seed), bitmap |-> NoBitmap]
  /\ result = NoResult
  /\ uploadSize = Len(file.data)
  /\ resolved = NoRoute
  /\ yuv = <<0, 0, 0>>
  /\ rgb = <<>>
  /\ encoded = NoEncoded
  /\ steps = 0
  /\ requests = <<>>
  /\ statsFile = 0
  /\ initialCount = 0

SpecNv21 == InitNv21 /\ [][Next]_vars

-----------------------------------------------------------------------------
(* Specification of the YUV -> RGB transform on its own                    *)

\* sample values of a byte: the ends, the offsets 16 and 128 of the
\* transform, the nominal range 16..235 / 16..240 and values between
ByteSamples ==
  {0, 1, 15, 16, 17, 64, 100, 127, 128, 129, 200, 234, 235, 236, 240, 254, 255}

InitYuv ==
  /\ pc = "called"
  /\ yuv \in ByteSamples \X ByteSamples \X ByteSamples
  /\ rgb = <<>>
  /\ server = "index"
  /\ ext = ".yuv"
  /\ rawOptions = [width |-> Undef, height |-> Undef, pixelFormat |-> NoHint]
  /\ file = NoFile
  /\ result = NoResult
  /\ uploadSize = 0
  /\ resolved = NoRoute
  /\ encoded = NoEncoded
  /\ steps = 0
  /\ requests = <<>>
  /\ statsFile = 0
  /\ initialCount = 0

\* convertYuvPixelToRgb(y, u, v, outBuffer, 0) on a four-byte buffer
ConvertPixel ==
  /\ pc = "called"
  /\ rgb' = convertYuvPixelToRgb(yuv[1], yuv[2], yuv[3], BufferAlloc(4), 0)
  /\ pc' = "done"
  /\ UNCHANGED <<server, ext, rawOptions, file, result, uploadSize, resolved,
                 yuv, encoded, steps,
                 processVars>>

NextYuv == ConvertPixel

SpecYuv == InitYuv /\ [][NextYuv]_vars

-----------------------------------------------------------------------------
(* Specification of detection and resolution on files of realistic size    *)

\* distances from the exact size of a candidate, around the 4096 tolerance
Deltas == {-4096, -4095, -100, 0, 1, 100, 4095, 4096}

\* w * h * bpp for every candidate and every bytes-per-pixel value
ExactSizes ==
  { (resolutions[k][1] * resolutions[k][2] * b2) \div 2 :
      k \in 1..Len(resolutions), b2 \in {3, 4, 6, 8} }

UploadSizes ==
  { e + d : e \in ExactSizes, d \in Deltas } \cup {0, 1, 4096, 1000000}

InitResolve ==
  /\ pc = "called"
  /\ server \in Servers
  /\ ext \in Exts
  /\ rawOptions \in Options({Undef, 640}, {Undef, 480})
  /\ uploadSize \in UploadSizes
  /\ resolved = NoRoute
  /\ file = NoFile
  /\ result = NoResult
  /\ yuv = <<0, 0, 0>>
  /\ rgb = <<>>
  /\ encoded = NoEncoded
  /\ steps = 0
  /\ requests = <<>>
  /\ statsFile = 0
  /\ initialCount = 0

\* getSharpInstance up to the decode (src/server/index.js)
Resolve ==
  /\ pc = "called"
  /\ server = "index"
  /\ resolved' = Route(ext, rawOptions, uploadSize)
  /\ pc' = "done"
  /\ UNCHANGED <<server, ext, rawOptions, file, result, uploadSize, yuv, rgb,
                 encoded, steps,
                 processVars>>

\* getSharpInstance up to the decode (part_000)
Resolve_p0 ==
  /\ pc = "called"
  /\ server = "part0"
  /\ resolved' = Route_p0(ext, rawOptions, uploadSize)
  /\ steps' = IF guessCalled_p0(ext, rawOptions)
                THEN guessIterations(uploadSize,
                                     choosePixelFormat_p0(ext, rawOptions))
                ELSE 0
  /\ pc' = "done"
  /\ UNCHANGED <<server, ext, rawOptions, file, result, uploadSize, yuv, rgb,
                 encoded, processVars>>

NextResolve == Resolve \/ Resolve_p0

SpecResolve == InitResolve /\ [][NextResolve]_vars

-----------------------------------------------------------------------------
(* POST /api/process: output format and the processed counter              *)

\* path.extname(originalFile).slice(1).toLowerCase()
extName(e) ==
  CASE e = ".uyvy" -> "uyvy" [] e = ".yuv" -> "yuv" [] e = ".raw" -> "raw"
    [] e = ".bin" -> "bin" [] e = ".nv21" -> "nv21" [] e = ".rgb" -> "rgb"
    [] e = ".bgr" -> "bgr" [] e = ".rgba" -> "rgba" [] e = ".bgra" -> "bgra"
    [] e = ".jpg" -> "jpg" [] e = ".jpeg" -> "jpeg" [] e = ".png" -> "png"
    [] e = ".webp" -> "webp" [] e = ".gif" -> "gif" [] e = ".avif" -> "avif"
    [] e = ".tiff" -> "tiff" [] e = ".tif" -> "tif" [] e = ".svg" -> "svg"
    [] e = ".bmp" -> "bmp" [] e = ".dat" -> "dat"

\* the names the process route of src/server/index.js turns into 'png'
RawOutputNames ==
  {"uyvy", "yuv", "nv21", "rgb", "raw", "bin", "bgra", "rgba"}

\* the names the process route of part_000 turns into 'png'
RawOutputNames_p0 == {"uyvy", "yuv", "nv21", "rgb", "raw", "bin"}

\* let format = options.format; ... (src/server/index.js)
outputFormat(e, requested) ==
  LET f1 == IF requested = "original"
              THEN IF extName(e) \in RawOutputNames THEN "png" ELSE extName(e)
              ELSE requested
      f2 == IF f1 = "jpg" THEN "jpeg" ELSE f1
  IN IF f2 \in RawOutputNames THEN "png" ELSE f2

\* the same in part_000
outputFormat_p0(e, requested) ==
  LET f1 == IF requested = "original"
              THEN IF extName(e) \in RawOutputNames_p0 THEN "png" ELSE extName(e)
              ELSE requested
      f2 == IF f1 = "jpg" THEN "jpeg" ELSE f1
  IN IF f2 \in RawOutputNames_p0 THEN "png" ELSE f2

\* stats.json does not exist yet
Missing == -1

\* getStats().processedCount: a missing file is created with 0
getStats(stored) == IF stored = Missing THEN 0 ELSE stored

\* variant: the count is written back as it was read
incrementStatsNoAdd(stored) == getStats(stored)

\* stats = getStats(); stats.processedCount += 1; writeFileSync(...)
incrementStats(stored) == getStats(stored) + 1

\* a request that has not been answered: no status yet
NoStatus == 0

\* a request record after one step of its handler
Answer(r, status) == [r EXCEPT !.pc = "answered", !.status = status]

\* the handler up to its first await: parameter and file checks, then the
\* output format (src/server/index.js)
Validate(i) ==
  /\ server = "index"
  /\ requests[i].pc = "received"
  /\ LET r == requests[i]
     IN requests' =
          [requests EXCEPT ![i] =
             IF ~r.hasParams THEN Answer(r, 400)
             ELSE IF ~r.found THEN Answer(r, 404)
             ELSE [r EXCEPT !.pc = "processing",
                            !.format = outputFormat(r.ext, r.requested)]]
  /\ UNCHANGED <<coreVars, statsFile, initialCount>>

\* the same for part_000
Validate_p0(i) ==
  /\ server = "part0"
  /\ requests[i].pc = "received"
  /\ LET r == requests[i]
     IN requests' =
          [requests EXCEPT ![i] =
             IF ~r.hasParams THEN Answer(r, 400)
             ELSE IF ~r.found THEN Answer(r, 404)
             ELSE [r EXCEPT !.pc = "processing",
                            !.format = outputFormat_p0(r.ext, r.requested)]]
  /\ UNCHANGED <<coreVars, statsFile, initialCount>>

\* the awaited decode, pipeline and output: it completes, or it throws and
\* the catch answers 500
Process(i) ==
  /\ requests[i].pc = "processing"
  /\ \E ok \in BOOLEAN :
       requests' =
         [requests EXCEPT ![i] =
            IF ok THEN [@ EXCEPT !.pc = "written"] ELSE Answer(@, 500)]
  /\ UNCHANGED <<coreVars, statsFile, initialCount>>

\* incrementStats(); statSync; res.json(...) : one synchronous stretch
\* (src/server/index.js)
Respond(i) ==
  /\ server = "index"
  /\ requests[i].pc = "written"
  /\ statsFile' = incrementStats(statsFile)
  /\ requests' = [requests EXCEPT ![i] = Answer(@, 200)]
  /\ UNCHANGED <<coreVars, initialCount>>

\* statSync; res.json(...) : part_000 keeps no counter
Respond_p0(i) ==
  /\ server = "part0"
  /\ requests[i].pc = "written"
  /\ requests' = [requests EXCEPT ![i] = Answer(@, 200)]
  /\ UNCHANGED <<coreVars, statsFile, initialCount>>

\* options.format as the UI and other clients send it
RequestedFormats ==
  {"original", "png", "jpeg", "jpg", "webp", "avif", "bmp", "gif",
   "uyvy", "nv21", "bgr", "rgba"}

\* a request as it arrives
Request(hasParams, found, e, requested) ==
  [pc |-> "received", hasParams |-> hasParams, found |-> found, ext |-> e,
   requested |-> requested, format |-> "", status |-> NoStatus]

MaxStored == 2     \* largest processedCount already stored at the start

StoredCounts == {Missing} \cup 0..MaxStored

\* the core is not involved: its variables rest
CoreIdle ==
  /\ pc = "idle"
  /\ ext = ""
  /\ rawOptions = [width |-> Undef, height |-> Undef, pixelFormat |-> NoHint]
  /\ file = NoFile
  /\ result = NoResult
  /\ uploadSize = 0
  /\ resolved = NoRoute
  /\ yuv = <<0, 0, 0>>
  /\ rgb = <<>>
  /\ encoded = NoEncoded
  /\ steps = 0

\* one process request, any upload and any requested format
InitProcess ==
  /\ CoreIdle
  /\ server \in Servers
  /\ statsFile \in StoredCounts
  /\ initialCount = getStats(statsFile)
  /\ \E hasParams \in BOOLEAN, found \in BOOLEAN, e \in Exts,
        requested \in RequestedFormats :
       requests = << Request(hasParams, found, e, requested) >>

NextProcess ==
  \E i \in DOMAIN requests :
    \/ Validate(i)
    \/ Validate_p0(i)
    \/ Process(i)
    \/ Respond(i)
    \/ Respond_p0(i)

SpecProcess == InitProcess /\ [][NextProcess]_vars

MaxRequests == 3   \* concurrent process requests

\* MaxRequests concurrent requests to src/server/index.js
InitStats ==
  /\ CoreIdle
  /\ server = "index"
  /\ statsFile \in StoredCounts
  /\ initialCount = getStats(statsFile)
  /\ requests \in
       [1..MaxRequests ->
          { Request(hasParams, found, ".uyvy", "original") :
              hasParams \in BOOLEAN, found \in BOOLEAN }]

NextStats ==
  \E i \in DOMAIN requests :
    \/ Validate(i)
    \/ Process(i)
    \/ Respond(i)

SpecStats == InitStats /\ [][NextStats]_vars

-----------------------------------------------------------------------------
(* The specification's own tables, used to state the properties            *)

\* PixelFormat of a hint, whatever its spelling
FormatOfHint(h) ==
  CASE h \in {"uyvy", "UYVY"} -> "UYVY"
    [] h = "yuy2" -> "YUY2"
    [] h \in {"nv21", "NV21"} -> "NV21"
    [] h \in {"rgb", "RGB"} -> "RGB24"
    [] h = "bgr" -> "BGR24"
    [] h = "rgba" -> "RGBA32"
    [] h \in {"bgra", "BGRA"} -> "BGRA32"
    [] OTHER -> "unsupported"

\* extension -> format default table of section 6
FormatOfExt(e) ==
  CASE e \in {".uyvy", ".yuv", ".raw", ".bin"} -> "UYVY"
    [] e = ".nv21" -> "NV21"
    [] e = ".rgb" -> "RGB24"
    [] e = ".bgr" -> "BGR24"
    [] e = ".rgba" -> "RGBA32"
    [] e = ".bgra" -> "BGRA32"
    [] e = ".bmp" -> "LegacyBitmap"
    [] OTHER -> "pass-through"

\* the format a request asks for: the hint first, else the extension's
RequestedFormat ==
  IF rawOptions.pixelFormat # NoHint
    THEN FormatOfHint(rawOptions.pixelFormat)
    ELSE FormatOfExt(ext)

\* bytes per pixel of section 4.2, doubled
BytesPerPixel2(f) ==
  CASE f \in {"UYVY", "YUY2"} -> 4
    [] f = "NV21" -> 3
    [] f \in {"RGB24", "BGR24"} -> 6
    [] f \in {"RGBA32", "BGRA32"} -> 8

ChannelCount(f) == IF f \in {"RGB24", "BGR24"} THEN 3 ELSE 4

RawFormats == {"UYVY", "YUY2", "NV21", "RGB24", "BGR24", "RGBA32", "BGRA32"}

\* the branch of the decoder switch that belongs to a format
DecoderOf(f) ==
  CASE f = "UYVY" -> "uyvyToRgba"
    [] f = "YUY2" -> "yuy2ToRgba"
    [] f = "NV21" -> "nv21ToRgba"
    [] f = "RGB24" -> "rgb"
    [] f = "BGR24" -> "bgr"
    [] f = "RGBA32" -> "rgba"
    [] f = "BGRA32" -> "bgra"

DimsDeclared == Truthy(rawOptions.width) /\ Truthy(rawOptions.height)

\* hints spelled as the UI's RawPixelFormat type spells them, or no hint
PlainHint == rawOptions.pixelFormat \in KnownHints \cup {NoHint}

\* candidate k matches a byte length exactly / within the tolerance
CandidateExact(k, size, f) ==
  resolutions[k][1] * resolutions[k][2] = (2 * size) \div BytesPerPixel2(f)

CandidateNear(k, size, f) ==
  LET diff2 == 2 * size - resolutions[k][1] * resolutions[k][2] * BytesPerPixel2(f)
  IN diff2 < 8192 /\ -diff2 < 8192

Candidates == 1..Len(resolutions)

-----------------------------------------------------------------------------
(* Properties                                                              *)

\* C1: every successful raw decode returns a buffer of exactly
\* width * height * channelCount bytes, channelCount being 3 for RGB24/BGR24
\* and 4 for every other format, whatever the length of the input.
C1_BufferLength ==
  (pc = "done" /\ result.kind = "raw") =>
    /\ result.channels =
         ChannelCount(FormatOfHint(toLowerCase(
           IF server = "index" THEN choosePixelFormat(ext, rawOptions)
           ELSE choosePixelFormat_p0(ext, rawOptions))))
    /\ Len(result.buffer) = result.width * result.height * result.channels

\* C2: no raw decode ends in an error: with width and height declared >= 1 on
\* a file both copies treat as raw, the call returns a raw pixel buffer of
\* bytes, for every input length from 0 upwards.
C2_NeverThrows ==
  pc = "done" =>
    /\ result.kind # "error"
    /\ \A i \in 1..Len(result.buffer) : result.buffer[i] \in 0..255
    /\ (DimsDeclared /\ ext \in ImplicitRawExts_p0) => result.kind = "raw"

\* an NV21 decode of an input shorter than width * height * 3 / 2 has returned
C2_Witness ==
  /\ pc = "done"
  /\ result.kind = "raw"
  /\ result.decoder = "nv21ToRgba"
  /\ 2 * Len(file.data) < 3 * result.width * result.height
  /\ Len(result.buffer) = 4 * result.width * result.height

\* C3: for Y, U, V in 0..255 the transform returns
\* R = clamp8((298c + 409e + 128) >> 8), G = clamp8((298c - 100d - 208e + 128) >> 8),
\* B = clamp8((298c + 516d + 128) >> 8) with c = Y-16, d = U-128, e = V-128,
\* >> 8 rounding towards minus infinity, and every result lies in 0..255.
IsFloorShift8(n, q) == 256 * q <= n /\ n < 256 * q + 256

IsClamp8(q, out) ==
  /\ out \in 0..255
  /\ q < 0 => out = 0
  /\ q > 255 => out = 255
  /\ q \in 0..255 => out = q

ShiftRange == -300..600

C3_Transform ==
  (pc = "done" /\ rgb # <<>>) =>
    LET c == yuv[1] - 16
        d == yuv[2] - 128
        e == yuv[3] - 128
    IN /\ \E q \in ShiftRange :
            IsFloorShift8(298 * c + 409 * e + 128, q) /\ IsClamp8(q, rgb[1])
       /\ \E q \in ShiftRange :
            /\ IsFloorShift8(298 * c - 100 * d - 208 * e + 128, q)
            /\ IsClamp8(q, rgb[2])
       /\ \E q \in ShiftRange :
            IsFloorShift8(298 * c + 516 * d + 128, q) /\ IsClamp8(q, rgb[3])

\* a pixel whose red saturates at 255 and whose blue, negative before the
\* clamp, saturates at 0
C3_Witness ==
  /\ pc = "done"
  /\ yuv = <<235, 0, 255>>
  /\ rgb = <<255, 202, 0, 255>>

\* C4: with no dimensions supplied, a byte length of exactly
\* w * h * bytesPerPixel(format) for a candidate (w, h) resolves to (w, h);
\* 640*480*2 bytes with no hint and extension .yuv resolve to (640, 480).
C4_ExactInference ==
  (pc = "done" /\ resolved.path # "none" /\ ~DimsDeclared /\ PlainHint
     /\ ext \in ImplicitRawExts_p0) =>
    \A k \in Candidates :
      2 * uploadSize =
          resolutions[k][1] * resolutions[k][2] * BytesPerPixel2(RequestedFormat)
        => /\ resolved.path = "raw"
           /\ resolved.width = resolutions[k][1]
           /\ resolved.height = resolutions[k][2]

\* C5: with no dimensions supplied and no exact match, a byte length within
\* 4096 bytes of w * h * bytesPerPixel(format) for a candidate (w, h)
\* resolves to (w, h); 640*480*2 + 100 bytes resolve to (640, 480).
C5_FuzzyInference ==
  (pc = "done" /\ resolved.path # "none" /\ ~DimsDeclared /\ PlainHint
     /\ ext \in ImplicitRawExts_p0
     /\ \A j \in Candidates : ~CandidateExact(j, uploadSize, RequestedFormat)) =>
    \A k \in Candidates :
      CandidateNear(k, uploadSize, RequestedFormat)
        => /\ resolved.path = "raw"
           /\ resolved.width = resolutions[k][1]
           /\ resolved.height = resolutions[k][2]

C7_HintPrecedence ==
  (pc = "done" /\ result.kind = "raw"
     /\ FormatOfHint(rawOptions.pixelFormat) \in RawFormats) =>
    result.decoder = DecoderOf(FormatOfHint(rawOptions.pixelFormat))

\* C8: with no pixel-format hint the format chosen is UYVY for
\* .uyvy/.yuv/.raw/.bin, NV21 for .nv21, RGB24 for .rgb, BGR24 for .bgr,
\* RGBA32 for .rgba, BGRA32 for .bgra, the legacy bitmap path for .bmp and
\* pass-through for any other extension (the raw formats being decoded once
\* width and height are known, here declared by the caller).
C8_ExtensionTable ==
  (pc = "done" /\ resolved.path # "none" /\ rawOptions.pixelFormat = NoHint) =>
    LET f == FormatOfExt(ext)
    IN /\ (f \in RawFormats /\ DimsDeclared) =>
            /\ resolved.path = "raw"
            /\ FormatOfHint(resolved.pixelFormat) = f
       /\ f = "LegacyBitmap" => resolved.path = "bmp"
       /\ f = "pass-through" => resolved.path = "pass"

\* C9: a file with a standard compressed-image extension always takes the
\* pass-through path, whatever width, height and hint the caller supplies.
C9_StandardBypass ==
  (pc = "done" /\ ext \in STANDARD_FORMATS) => result.kind = "pass"

\* pixel k (from 0) of a four-byte-per-pixel buffer
PixelAt(buf, k) == <<buf[4 * k + 1], buf[4 * k + 2], buf[4 * k + 3], buf[4 * k + 4]>>

\* C10: legacy bitmap decode turns every (A,B,G,R) pixel into (R,G,B,A'),
\* R, G, B copied from source bytes 3, 2, 1, and A' = 255 at every pixel when
\* every source alpha is 0, otherwise A' = the pixel's own source alpha.
C10_BitmapDecode ==
  (pc = "done" /\ result.kind = "bmp") =>
    LET src == file.bitmap.data
        n == Len(src) \div 4
        allZero == \A k \in 0..(n - 1) : PixelAt(src, k)[1] = 0
    IN /\ Len(result.buffer) = Len(src)
       /\ \A k \in 0..(n - 1) :
            LET p == PixelAt(src, k)
                q == PixelAt(result.buffer, k)
            IN /\ q[1] = p[4] /\ q[2] = p[3] /\ q[3] = p[2]
               /\ q[4] = IF allZero THEN 255 ELSE p[1]

\* a two-pixel bitmap with one transparent and one visible pixel keeps both
\* alpha values, the zero included
C10_Witness ==
  /\ pc = "done"
  /\ result.kind = "bmp"
  /\ file.bitmap.data = <<0, 11, 12, 13, 9, 21, 22, 23>>
  /\ result.buffer = <<13, 12, 11, 0, 23, 22, 21, 9>>

\* C11: decoding a bitmap's (A,B,G,R) bytes and encoding the result again
\* gives back the source's B, G and R at every pixel; the alpha is the
\* source's alpha, or 255 when the decode forced opacity (every source alpha
\* 0) or the encode forces alpha to 255.
C11_BitmapRoundTrip ==
  (pc = "encoded" /\ result.kind = "bmp") =>
    LET x == file.bitmap.data
        y == encoded.data
        n == Len(x) \div 4
        allZero == \A k \in 0..(n - 1) : PixelAt(x, k)[1] = 0
    IN /\ Len(y) = Len(x)
       /\ \A k \in 0..(n - 1) :
            LET p == PixelAt(x, k)
                q == PixelAt(y, k)
            IN /\ q[2] = p[2] /\ q[3] = p[3] /\ q[4] = p[4]
               /\ q[1] = IF allZero \/ encoded.policy = "force"
                         THEN 255 ELSE p[1]

\* with the alpha-copying encode a bitmap with mixed alpha comes back
\* byte for byte
C11_Witness ==
  /\ pc = "encoded"
  /\ result.kind = "bmp"
  /\ encoded.policy = "copy"
  /\ file.bitmap.data = <<0, 11, 12, 13, 9, 21, 22, 23>>
  /\ encoded.data = file.bitmap.data

\* the packed 4:2:2 decoders
PackedDecoders == {"uyvyToRgba", "yuy2ToRgba"}

\* bytes from..to (from 1) of a buffer, those past its end left out
Bytes(buf, from, to) == { buf[j] : j \in from..Min(to, Len(buf)) }

\* the pixel a packed decoder makes of luma byte `lumaAt` of group k
PackedPixel(decoder, in, k, second) ==
  IF decoder = "uyvyToRgba"
    THEN YuvPixel(in[4 * k + (IF second THEN 4 ELSE 2)],
                  in[4 * k + 1], in[4 * k + 3])
    ELSE YuvPixel(in[4 * k + (IF second THEN 3 ELSE 1)],
                  in[4 * k + 2], in[4 * k + 4])

\* C12: a UYVY or YUY2 decode of an input of length L < 2 * w * h returns a
\* buffer of the full length w * h * 4 in which the pixel pairs with index
\* below floor(L / 4) are decoded and every byte, alpha included, of every
\* later pair is 0; an input missing only its last 2 bytes leaves exactly
\* the last pixel pair at zero.
C12_GracefulTruncation ==
  (/\ pc = "done" /\ result.kind = "raw"
   /\ result.decoder \in PackedDecoders
   /\ Len(file.data) < 2 * result.width * result.height) =>
    LET in == file.data
        L == Len(in)
        n == result.width * result.height
        out == result.buffer
        pairs == (n + 1) \div 2
        IsZero(k) == Bytes(out, 8 * k + 1, 8 * k + 8) \subseteq {0}
        IsDecoded(k) ==
          /\ PixelAt(out, 2 * k) = PackedPixel(result.decoder, in, k, FALSE)
          /\ PixelAt(out, 2 * k + 1) = PackedPixel(result.decoder, in, k, TRUE)
    IN /\ Len(out) = n * 4
       /\ \A k \in 0..(pairs - 1) :
            IF k < L \div 4 THEN IsDecoded(k) ELSE IsZero(k)
       /\ (n % 2 = 0 /\ L = 2 * n - 2) =>
            /\ IsZero(pairs - 1)
            /\ \A k \in 0..(pairs - 2) : ~IsZero(k)

\* a 2 x 2 UYVY frame missing its last two bytes: the first pair is decoded,
\* the second pair is eight zero bytes
C12_Witness ==
  /\ pc = "done" /\ result.kind = "raw"
  /\ result.decoder = "uyvyToRgba"
  /\ result.width = 2 /\ result.height = 2
  /\ Len(file.data) = 6
  /\ PixelAt(result.buffer, 0)[4] = 255
  /\ PixelAt(result.buffer, 1)[4] = 255
  /\ Bytes(result.buffer, 9, 16) = {0}

\* offset (from 0) of the V byte of the chroma pair of pixel (row, col)
ChromaOffset(w, h, row, col) == w * h + (row \div 2) * w + (col \div 2) * 2

\* the 2 x 2 block of pixel (row, col)
BlockOf(row, col) == <<row \div 2, col \div 2>>

\* C13: for an NV21 input of even width and height and exactly w * h * 3 / 2
\* bytes, pixel (row, col) is the transform of Y = in[row * w + col],
\* V = in[w * h + floor(row / 2) * w + floor(col / 2) * 2] and U = the byte
\* after it; the four pixels of a 2 x 2 block share one (V, U) pair, two
\* different blocks use disjoint pairs, and no pair lies outside the input
\* (no pixel falls back to the neutral chroma).
C13_Nv21Chroma ==
  (/\ pc = "done" /\ result.kind = "raw" /\ result.decoder = "nv21ToRgba"
   /\ result.width % 2 = 0 /\ result.height % 2 = 0
   /\ 2 * Len(file.data) = 3 * result.width * result.height) =>
    LET in == file.data
        w == result.width
        h == result.height
        Pixels == (0..(h - 1)) \X (0..(w - 1))
    IN /\ \A p \in Pixels :
            LET c == ChromaOffset(w, h, p[1], p[2])
            IN /\ c + 1 < Len(in)
               /\ PixelAt(result.buffer, p[1] * w + p[2]) =
                    YuvPixel(in[p[1] * w + p[2] + 1], in[c + 2], in[c + 1])
       /\ \A p, q \in Pixels :
            LET c == ChromaOffset(w, h, p[1], p[2])
                d == ChromaOffset(w, h, q[1], q[2])
            IN IF BlockOf(p[1], p[2]) = BlockOf(q[1], q[2])
                 THEN c = d
                 ELSE {c, c + 1} \cap {d, d + 1} = {}

\* a 4 x 4 frame of 24 bytes: four blocks, the last pixel decoded from the
\* last chroma pair of the input
C13_Witness ==
  /\ pc = "done" /\ result.kind = "raw" /\ result.decoder = "nv21ToRgba"
  /\ result.width = 4 /\ result.height = 4
  /\ Len(file.data) = 24
  /\ PixelAt(result.buffer, 15) =
       YuvPixel(file.data[16], file.data[24], file.data[23])
  /\ PixelAt(result.buffer, 15) # PixelAt(result.buffer, 0)

\* a UYVY decode by src/server/index.js of a white frame of exactly
\* 2 * w * h bytes
WhiteFrameDecoded ==
  /\ pc = "done" /\ server = "index"
  /\ result.kind = "raw" /\ result.decoder = "uyvyToRgba"
  /\ file.data = WhiteUyvy(2 * result.width * result.height)

IsWhite(px) ==
  /\ px[1] = px[2] /\ px[2] = px[3]
  /\ px[1] \in 253..255
  /\ px[4] = 255

\* C14 as stated: a UYVY buffer of the exact size for (width, height) with
\* every luma 235 and every chroma 128 decodes to R = G = B in 253..255 and
\* A = 255 at every pixel.
C14_ColorFidelityAnySize ==
  WhiteFrameDecoded =>
    \A k \in 0..(result.width * result.height - 1) :
      IsWhite(PixelAt(result.buffer, k))

\* C14: a UYVY buffer of the exact size for (width, height), width * height
\* even, with every luma 235 and every chroma 128 decodes to R = G = B in
\* 253..255 and A = 255 at every pixel.
C14_ColorFidelity ==
  (WhiteFrameDecoded /\ (result.width * result.height) % 2 = 0) =>
    \A k \in 0..(result.width * result.height - 1) :
      IsWhite(PixelAt(result.buffer, k))

\* a white 2 x 2 frame decodes to four pixels (255, 255, 255, 255)
C14_Witness ==
  /\ WhiteFrameDecoded
  /\ result.width = 2 /\ result.height = 2
  /\ Bytes(result.buffer, 1, 16) = {255}

\* a raw decode of a file of exactly the size the declared format needs for
\* the declared width and height
ExactSizeDecoded ==
  /\ pc = "done" /\ result.kind = "raw"
  /\ DimsDeclared
  /\ FormatOfHint(rawOptions.pixelFormat) \in RawFormats
  /\ 2 * Len(file.data) =
       rawOptions.width * rawOptions.height
         * BytesPerPixel2(FormatOfHint(rawOptions.pixelFormat))

\* C15: decoding an input of exactly the size format f needs for (w, h)
\* (2wh bytes for UYVY/YUY2, 3wh/2 for NV21, 3wh for RGB24/BGR24, 4wh for
\* RGBA32/BGRA32) returns a buffer of length w * h * channelCount(f).
C15_SizeRoundTrip ==
  ExactSizeDecoded =>
    Len(result.buffer) =
      rawOptions.width * rawOptions.height
        * ChannelCount(FormatOfHint(rawOptions.pixelFormat))

\* a 3 x 1 RGB24 file of 9 bytes gives 9 bytes, a 2 x 2 UYVY file of 8 bytes
\* gives 16
C15_Witness ==
  /\ ExactSizeDecoded
  /\ \/ /\ rawOptions.pixelFormat = "rgb"
        /\ rawOptions.width = 3 /\ rawOptions.height = 1
        /\ Len(result.buffer) = 9
     \/ /\ rawOptions.pixelFormat = "uyvy"
        /\ rawOptions.width = 2 /\ rawOptions.height = 2
        /\ Len(result.buffer) = 16

\* C16: when the wrapped bitmap parser fails on a .bmp input, the legacy
\* bitmap path ends in a failure handed to the caller; the failure is not
\* swallowed and replaced by the result of another decode path.
C16_BitmapFailurePropagated ==
  (/\ pc = "done" /\ ext = ".bmp"
   /\ result.kind # "raw"
   /\ ~file.bitmap.ok) =>
    result.kind = "error"

\* C17: the buffer a decode returns is newly allocated, never the input
\* buffer itself, for every raw format and the legacy bitmap, the
\* RGB24/RGBA32 pass-through included.
C17_FreshOutput ==
  (pc = "done" /\ result.kind \in {"raw", "bmp"}) => result.fresh

\* a size the resolver of section 4.2 resolves for format f
Resolvable(size, f) ==
  \E k \in Candidates : CandidateExact(k, size, f) \/ CandidateNear(k, size, f)

\* the condition under which the raw decode is entered: the extension is
\* not a standard one, the file is raw by extension or by a format hint,
\* and width and height are declared or resolved
RawExpected ==
  /\ ext \notin STANDARD_FORMATS
  /\ ext \in RawExts \/ rawOptions.pixelFormat # NoHint
  /\ DimsDeclared \/ Resolvable(uploadSize, RequestedFormat)

\* C18: the raw decode is entered exactly when the extension is not a
\* standard one, the file is raw by extension or by caller hints, and width
\* and height are declared or resolved; otherwise a .bmp file goes to the
\* legacy bitmap decode and every other file to pass-through; an invocation
\* ends on exactly one of these paths.
C18_Routing ==
  (pc = "done" /\ resolved.path # "none" /\ PlainHint) =>
    resolved.path =
      IF RawExpected THEN "raw" ELSE IF ext = ".bmp" THEN "bmp" ELSE "pass"

\* the most iterations the resolution step can take: two passes over the
\* candidate table, in the copy that has one and when it is consulted
ResolveBound ==
  IF server = "part0" /\ ~DimsDeclared THEN 2 * Len(resolutions) ELSE 0

\* the most iterations the decode can take, from the values fixed before
\* its loops start: width * height, the input length, the bitmap's length
DecodeBound ==
  LET n == result.width * result.height
      L == Len(file.data)
  IN CASE result.kind = "raw" /\ result.decoder \in PackedDecoders ->
            Min((n + 1) \div 2, L)
       [] result.kind = "raw" /\ result.decoder = "nv21ToRgba" -> n
       [] result.kind = "raw" /\ result.decoder \in {"bgr", "bgra"} -> L
       [] result.kind = "bmp" -> 2 * Len(file.bitmap.data)
       [] OTHER -> 0

\* C19: every invocation finishes after a number of loop iterations bounded
\* by values fixed before the loops start (input length, width * height,
\* size of the candidate table), and returns a result.
C19_BoundedIterations ==
  (pc = "done") =>
    /\ result.kind \in {"raw", "bmp", "pass"}
    /\ steps <= ResolveBound + DecodeBound

\* a 2 x 2 UYVY decode of 9 bytes runs its loop twice
C19_Witness ==
  /\ pc = "done" /\ server = "index"
  /\ result.kind = "raw" /\ result.decoder = "uyvyToRgba"
  /\ result.width = 2 /\ result.height = 2
  /\ Len(file.data) = 9
  /\ steps = 2

\* C20: in a UYVY decode, for every pixel pair k whose four bytes
\* U = in[4k], Y0 = in[4k+1], V = in[4k+2], Y1 = in[4k+3] lie inside the
\* input, output pixel 2k is transform(Y0, U, V) and output pixel 2k+1 is
\* transform(Y1, U, V), both with alpha 255: the pair shares U and V.
C20_UyvyDecode ==
  (pc = "done" /\ result.kind = "raw" /\ result.decoder = "uyvyToRgba") =>
    LET in == file.data
        out == result.buffer
        n == result.width * result.height
    IN \A k \in 0..(Len(in) \div 4) :
         (4 * k + 3 < Len(in) /\ 2 * k < n) =>
           LET U == in[4 * k + 1]
               Y0 == in[4 * k + 2]
               V == in[4 * k + 3]
               Y1 == in[4 * k + 4]
           IN /\ PixelAt(out, 2 * k) = YuvPixel(Y0, U, V)
              /\ PixelAt(out, 2 * k)[4] = 255
              /\ (2 * k + 1 < n) =>
                   /\ PixelAt(out, 2 * k + 1) = YuvPixel(Y1, U, V)
                   /\ PixelAt(out, 2 * k + 1)[4] = 255

\* a 2 x 2 frame of 8 bytes: both pairs decoded, the second from bytes 4..7
C20_Witness ==
  /\ pc = "done" /\ result.kind = "raw" /\ result.decoder = "uyvyToRgba"
  /\ result.width = 2 /\ result.height = 2
  /\ file.data = Pattern(8, 3)
  /\ PixelAt(result.buffer, 2) =
       YuvPixel(file.data[6], file.data[5], file.data[7])
  /\ PixelAt(result.buffer, 3) =
       YuvPixel(file.data[8], file.data[5], file.data[7])
  /\ PixelAt(result.buffer, 2) # PixelAt(result.buffer, 3)

\* C21: when the chosen pixel format is YUY2, the dispatch uses the YUY2
\* decoder, and for every pixel pair k whose four bytes Y0 = in[4k],
\* U = in[4k+1], Y1 = in[4k+2], V = in[4k+3] lie inside the input, output
\* pixel 2k is transform(Y0, U, V) and output pixel 2k+1 is
\* transform(Y1, U, V).
C21_Yuy2Decode ==
  (pc = "done" /\ result.kind = "raw" /\ rawOptions.pixelFormat = "yuy2") =>
    LET in == file.data
        out == result.buffer
        n == result.width * result.height
    IN /\ result.decoder = "yuy2ToRgba"
       /\ \A k \in 0..(Len(in) \div 4) :
            (4 * k + 3 < Len(in) /\ 2 * k < n) =>
              LET Y0 == in[4 * k + 1]
                  U == in[4 * k + 2]
                  Y1 == in[4 * k + 3]
                  V == in[4 * k + 4]
              IN /\ PixelAt(out, 2 * k) = YuvPixel(Y0, U, V)
                 /\ (2 * k + 1 < n) =>
                      PixelAt(out, 2 * k + 1) = YuvPixel(Y1, U, V)

\* C22: in an NV21 decode every pixel whose chroma pair (uvIndex,
\* uvIndex + 1) reaches the end of the input or lies beyond it is
\* transformed with U = V = 128, and every pixel whose pair lies inside the
\* input is transformed with the input's bytes.
C22_Nv21ShortInput ==
  (pc = "done" /\ result.kind = "raw" /\ result.decoder = "nv21ToRgba") =>
    LET in == file.data
        w == result.width
        h == result.height
    IN \A row \in 0..(h - 1), col \in 0..(w - 1) :
         LET c == ChromaOffset(w, h, row, col)
             Y == At(in, row * w + col)
         IN PixelAt(result.buffer, row * w + col) =
              IF c >= Len(in) \/ c + 1 >= Len(in)
                THEN YuvPixel(Y, 128, 128)
                ELSE YuvPixel(Y, in[c + 2], in[c + 1])

\* a 4 x 4 frame one byte short: the last block has lost its U byte and is
\* decoded with neutral chroma, the first block with its own pair
C22_Witness ==
  /\ pc = "done" /\ result.kind = "raw" /\ result.decoder = "nv21ToRgba"
  /\ result.width = 4 /\ result.height = 4
  /\ Len(file.data) = 23
  /\ result.warned
  /\ PixelAt(result.buffer, 15) = YuvPixel(file.data[16], 128, 128)
  /\ PixelAt(result.buffer, 0) =
       YuvPixel(file.data[1], file.data[18], file.data[17])
  /\ PixelAt(result.buffer, 0) # YuvPixel(file.data[1], 128, 128)

\* the channel swap the handling copy applies for a decoder name
SwapOf(decoder, buf) ==
  IF decoder = "bgra" THEN bgraSwap(buf)
  ELSE IF server = "index" THEN bgrSwap(buf)
  ELSE bgrSwap_p0(buf)

\* C23: a BGRA32 / BGR24 decode returns a buffer of the input's length in
\* which every complete pixel (4 resp. 3 bytes) has its first and third
\* bytes exchanged and its other bytes unchanged, and the bytes of a
\* trailing incomplete pixel equal the input's; the swap applied twice
\* gives back the input.
C23_ChannelSwap ==
  (pc = "done" /\ result.kind = "raw" /\ result.decoder \in {"bgr", "bgra"}) =>
    LET in == file.data
        out == result.buffer
        size == result.channels
        whole == Len(in) \div size
    IN /\ Len(out) = Len(in)
       /\ \A p \in 0..(whole - 1) :
            /\ out[size * p + 1] = in[size * p + 3]
            /\ out[size * p + 3] = in[size * p + 1]
            /\ out[size * p + 2] = in[size * p + 2]
            /\ size = 4 => out[size * p + 4] = in[size * p + 4]
       /\ \A j \in (size * whole + 1)..Len(in) : out[j] = in[j]
       /\ SwapOf(result.decoder, out) = in

\* C24: for every canonical RGBA buffer the encoder input has the same
\* length and holds (A', B, G, R) at every pixel, A' being the pixel's
\* canonical alpha under the copy policy and 255 under the force-opaque
\* policy; B, G and R are the canonical ones under both policies.
C24_BitmapEncode ==
  (pc = "encoded") =>
    LET in == result.buffer
        out == encoded.data
    IN /\ Len(out) = Len(in)
       /\ \A k \in 0..(Len(in) \div 4 - 1) :
            LET p == PixelAt(in, k)
                q == PixelAt(out, k)
            IN /\ q[2] = p[3] /\ q[3] = p[2] /\ q[4] = p[1]
               /\ q[1] = IF encoded.policy = "force" THEN 255 ELSE p[4]

\* a canonical buffer with alpha 0 and 9, encoded with forced alpha
C24_Witness ==
  /\ pc = "encoded"
  /\ encoded.policy = "force"
  /\ result.buffer = <<13, 12, 11, 0, 23, 22, 21, 9>>
  /\ encoded.data = <<255, 11, 12, 13, 255, 21, 22, 23>>

\* what the handling copy returns for the same file, width and height when
\* the hint is 'uyvy'
AsUyvy ==
  LET opts == [rawOptions EXCEPT !.pixelFormat = "uyvy"]
  IN IF server = "index" THEN getSharpInstance(ext, opts, file)
     ELSE getSharpInstance_p0(ext, opts, file)

\* C25: when the hint names a format outside the decoder set, the file is
\* decoded exactly as with the hint UYVY (same output for the same bytes,
\* width and height) and no error is raised.
C25_UnsupportedFormat ==
  (pc = "done" /\ FormatOfHint(rawOptions.pixelFormat) = "unsupported"
              /\ rawOptions.pixelFormat # NoHint) =>
    /\ result.kind # "error"
    /\ [result EXCEPT !.warned = FALSE] = [AsUyvy EXCEPT !.warned = FALSE]

\* a file with the hint 'h264' and declared 2 x 1 is decoded as one UYVY
\* group
C25_Witness ==
  /\ pc = "done"
  /\ rawOptions.pixelFormat = "h264"
  /\ rawOptions.width = 2 /\ rawOptions.height = 1
  /\ Len(file.data) >= 4
  /\ result.kind = "raw"
  /\ PixelAt(result.buffer, 0) =
       YuvPixel(file.data[2], file.data[1], file.data[3])
  /\ PixelAt(result.buffer, 1) =
       YuvPixel(file.data[4], file.data[1], file.data[3])

\* C26: for every hint the decoder dispatch accepts, upper-case spellings
\* included, the resolver computes totalPixels with the bytes-per-pixel of
\* the format the dispatch decodes with (2 for UYVY/YUY2, 1.5 for NV21,
\* 3 for RGB/BGR, 4 for RGBA/BGRA).
C26_ResolverDecoderAgree ==
  (/\ pc = "done" /\ server = "part0"
   /\ guessCalled_p0(ext, rawOptions)
   /\ rawOptions.pixelFormat # NoHint
   /\ FormatOfHint(rawOptions.pixelFormat) \in RawFormats) =>
    totalPixels(uploadSize, choosePixelFormat_p0(ext, rawOptions)) =
      (2 * uploadSize) \div BytesPerPixel2(FormatOfHint(rawOptions.pixelFormat))

\* the formats with the four bytes-per-pixel values of guessResolution
BppFormats == {"uyvy", "nv21", "rgb", "rgba"}

\* the candidates either pass of guessResolution accepts for a length
Matching(size, pf) ==
  { k \in Candidates : exactMatch(k, size, pf) \/ fuzzyMatch(k, size, pf) }

\* C27: the resolver's result does not depend on the order of its table:
\* for every byte length and every bytes-per-pixel value at most one
\* candidate matches exactly or within the tolerance, every exact match is
\* within the tolerance, and the resolver returns that candidate.
C27_OrderIndependent ==
  (pc = "done" /\ server = "part0" /\ guessCalled_p0(ext, rawOptions)) =>
    /\ \A pf \in BppFormats :
         /\ Cardinality(Matching(uploadSize, pf)) <= 1
         /\ \A k \in Candidates :
              exactMatch(k, uploadSize, pf) => fuzzyMatch(k, uploadSize, pf)
    /\ LET pf == choosePixelFormat_p0(ext, rawOptions)
       IN \A k \in Matching(uploadSize, pf) :
            /\ resolved.path = "raw"
            /\ <<resolved.width, resolved.height>> = resolutions[k]

\* a UYVY file 100 bytes longer than 640 x 480 needs: the second pass
\* finds the one candidate within the tolerance
C27_Witness ==
  /\ pc = "done" /\ server = "part0"
  /\ ext = ".yuv" /\ rawOptions.pixelFormat = NoHint /\ ~DimsDeclared
  /\ uploadSize = 614500
  /\ Matching(uploadSize, "uyvy") = {4}
  /\ resolved.path = "raw"
  /\ resolved.width = 640 /\ resolved.height = 480

\* C28: in the UYVY and YUY2 decoders every write lands inside the output
\* buffer: for every width and height >= 1, odd width * height included,
\* and every input length, only output offsets below width * height * 4 are
\* written.
C28_WritesInside ==
  (pc = "done" /\ result.kind = "raw" /\ result.decoder \in PackedDecoders) =>
    \A o \in packedWriteOffsets(file.data, result.width * result.height) :
      o < result.width * result.height * 4

\* the raw extensions as format names
RawExtNames == { extName(e) : e \in RawExts }

\* C29: in a process request for an upload with a raw extension (.uyvy,
\* .yuv, .nv21, .rgb, .bgr, .bgra, .rgba, .raw, .bin) the output format
\* 'original' resolves to 'png', and the resolved output format is never
\* the name of a raw extension, whatever format was requested.
C29_OutputFormat ==
  \A i \in DOMAIN requests :
    (requests[i].format # "" /\ requests[i].ext \in RawExts) =>
      /\ requests[i].requested = "original" => requests[i].format = "png"
      /\ requests[i].format \notin RawExtNames

\* the number of requests answered with success
Succeeded == Cardinality({ i \in DOMAIN requests : requests[i].status = 200 })

====
